---- MODULE Spec2Model ----
(***************************************************************************)
(* A model of the two scripts of awesmubarak/scripts:                      *)
(*                                                                         *)
(*   multivit_pricing.py        setup_driver, get_product_price,           *)
(*                              lambda_handler  (the price watcher)        *)
(*   quantopian_get_pricing.py  get_pricing     (the pricing adapter)      *)
(*                                                                         *)
(* A process runs one of the two scripts; `tool` says which.  The browser  *)
(* (selenium), the rendered page and the market-data provider (yfinance)   *)
(* are the environment: their outcomes are nondeterministic choices.       *)
(***************************************************************************)
EXTENDS Integers, Sequences, FiniteSets, TLC

VARIABLES
    tool,           \* which script this process runs
    pc,             \* position in the running script
    \* ---- multivit_pricing.py
    lambda_env,     \* "LAMBDA_TASK_ROOT" in os.environ
    event,          \* lambda_handler's first parameter
    context,        \* lambda_handler's second parameter
    dom,            \* the page's elements once it has rendered, in document order
    renderDelay,    \* seconds after the page load at which the page has rendered
    slept,          \* seconds slept since the page load
    options,        \* the Options / FirefoxService bundle setup_driver builds
    driver,         \* get_product_price's local `driver`: "unbound" or "bound"
    session,        \* the browser automation session: "absent", "open", "released"
    quitCalls,      \* number of driver.quit() calls made
    price_element,  \* index in dom of the element found, 0 before the lookup
    price_text,     \* get_product_price's local `price_text`, <<>> while unset
    fault,          \* the exception in flight, "none" when there is none
    response,       \* what lambda_handler returned: <<>> or <<[statusCode, body]>>
    events,         \* the calls made on the browser so far, in order
    \* ---- quantopian_get_pricing.py
    ticker,         \* get_pricing's arguments
    start_date,
    end_date,
    frequency,      \* the frequency argument, Omitted when the caller passes none
    interval,       \* get_pricing's local `interval`
    upstream,       \* heap reference of the response the provider hands out
    upstream0,      \* the provider response as it was when the provider built it
    heap,           \* the DataFrame objects alive, by reference (1..Len(heap))
    data,           \* get_pricing's local `data`: a heap reference, 0 while unset
    formatted_data, \* get_pricing's local `formatted_data`: a heap reference
    requests,       \* the (ticker, start, end, interval) requests sent by the current call
    provider_exc,   \* what the provider raised in the current call, "" when nothing
    error,          \* the ValueError raised by the current call: <<>> or <<[kind, msg]>>
    results,        \* the heap references returned by the calls completed so far
    calls           \* number of get_pricing calls started

varsA == <<lambda_env, event, context, dom, renderDelay, slept, options, driver,
           session, quitCalls, price_element, price_text, fault, response, events>>
varsB == <<ticker, start_date, end_date, frequency, interval, upstream, upstream0,
           heap, data, formatted_data, requests, provider_exc, error, results, calls>>
vars == <<tool, pc, varsA, varsB>>

(***************************************************************************)
(* Bounds of the model                                                     *)
(***************************************************************************)
MaxElems == 2       \* elements in the rendered page
MaxRows == 2        \* rows in a provider response
MaxSeed == 2        \* distinct price bars a row may carry
MaxCalls == 2       \* get_pricing calls made on the same provider response

Range(s) == {s[i] : i \in 1..Len(s)}
Positions(n) == [j \in 1..n |-> j]

(***************************************************************************)
(* multivit_pricing.py                                                     *)
(***************************************************************************)
SleepSeconds == 10
StatusOK == 200
BodyPrefix == "The current price is: "

Texts == {"9.99", "GBP 12.49"}
Events == {"None", "{}"}
Contexts == {"None", "LambdaContext"}
RenderDelays == {0, SleepSeconds, SleepSeconds + 1}

Element == [matches : BOOLEAN, text : Texts]
Pages == UNION {[1..n -> Element] : n \in 0..MaxElems}

\* The elements the browser sees at the moment of a lookup: nothing until the
\* page has rendered.
RenderedDom == IF renderDelay <= slept THEN dom ELSE <<>>

\* setup_driver's choice of profile (lines 24-37).
LambdaProfile ==
    [headless |-> TRUE, binary_location |-> "/opt/firefox/firefox",
     executable_path |-> "/opt/geckodriver"]
LocalProfile ==
    [headless |-> TRUE,
     binary_location |-> "/Applications/Firefox Developer Edition.app/Contents/MacOS/firefox",
     executable_path |-> "/usr/local/bin/geckodriver"]
NoProfile == [headless |-> FALSE, binary_location |-> "", executable_path |-> ""]
DriverProfile(inLambda) == IF inLambda THEN LambdaProfile ELSE LocalProfile

\* driver.find_element(By.CSS_SELECTOR, ...): the index of the first element
\* of the page matching the selector, 0 when none matches.
\* variant: the last matching element instead of the first
find_element_last(page) ==
    IF \E i \in 1..Len(page) : page[i].matches
    THEN CHOOSE i \in 1..Len(page) :
            page[i].matches /\ \A j \in (i+1)..Len(page) : ~page[j].matches
    ELSE 0
find_element(page) ==
    IF \E i \in 1..Len(page) : page[i].matches
    THEN CHOOSE i \in 1..Len(page) :
            page[i].matches /\ \A j \in 1..(i-1) : ~page[j].matches
    ELSE 0

\* A fault raised inside the try block of get_product_price: control passes to
\* the finally block with the fault in flight (lines 46, 64).
\* variant: the fault leaves get_product_price without passing the finally block
UnwindNoCleanup(f) == fault' = f /\ pc' = "raised"
Unwind(f) == fault' = f /\ pc' = "finally"

IdleB ==
    /\ ticker = "" /\ start_date = "" /\ end_date = "" /\ frequency = ""
    /\ interval = "" /\ upstream = 0 /\ upstream0 = <<>> /\ heap = <<>>
    /\ data = 0 /\ formatted_data = 0 /\ requests = <<>> /\ provider_exc = ""
    /\ error = <<>>
    /\ results = <<>> /\ calls = 0

InitA ==
    /\ tool = "multivit_pricing"
    /\ pc = "lambda_handler"
    /\ lambda_env \in BOOLEAN
    /\ event \in Events
    /\ context \in Contexts
    /\ dom \in Pages
    /\ renderDelay \in RenderDelays
    /\ slept = 0
    /\ options = NoProfile
    /\ driver = "unbound"
    /\ session = "absent"
    /\ quitCalls = 0
    /\ price_element = 0
    /\ price_text = <<>>
    /\ fault = "none"
    /\ response = <<>>
    /\ events = <<>>
    /\ IdleB

\* lines 45, 22-40: driver = setup_driver().  webdriver.Firefox either hands
\* back a driver with an open session, or raises.  A launch that raises hands
\* nothing back; whether it had already started a browser process is the
\* browser's business, so both outcomes are possible.
SetupDriver ==
    /\ tool = "multivit_pricing" /\ pc = "lambda_handler"
    /\ options' = DriverProfile(lambda_env)
    /\ events' = Append(events, "launch")
    /\ \/ /\ driver' = "bound" /\ session' = "open"
          /\ pc' = "get" /\ fault' = fault
       \/ /\ driver' = driver /\ session' \in {"absent", "open"}
          /\ fault' = "launch" /\ pc' = "raised"
    /\ UNCHANGED <<lambda_env, event, context, dom, renderDelay, slept, quitCalls,
                   price_element, price_text, response, varsB, tool>>

\* line 48: driver.get(url)
DriverGet ==
    /\ tool = "multivit_pricing" /\ pc = "get"
    /\ events' = Append(events, "get")
    /\ \/ pc' = "sleep" /\ fault' = fault
       \/ Unwind("navigation")
    /\ UNCHANGED <<lambda_env, event, context, dom, renderDelay, slept, options,
                   driver, session, quitCalls, price_element, price_text, response,
                   varsB, tool>>

\* variant: the wait is skipped when the element is already there
SleepUntilReady ==
    /\ tool = "multivit_pricing" /\ pc = "sleep"
    /\ IF find_element(RenderedDom) # 0
       THEN slept' = slept /\ events' = events
       ELSE slept' = slept + SleepSeconds /\ events' = Append(events, "sleep")
    /\ pc' = "find"
    /\ UNCHANGED <<lambda_env, event, context, dom, renderDelay, options, driver,
                   session, quitCalls, price_element, price_text, fault, response,
                   varsB, tool>>
\* line 51: time.sleep(10)
Sleep ==
    /\ tool = "multivit_pricing" /\ pc = "sleep"
    /\ slept' = slept + SleepSeconds
    /\ events' = Append(events, "sleep")
    /\ pc' = "find"
    /\ UNCHANGED <<lambda_env, event, context, dom, renderDelay, options, driver,
                   session, quitCalls, price_element, price_text, fault, response,
                   varsB, tool>>

\* lines 54-57: price_element = driver.find_element(...)
FindElement ==
    /\ tool = "multivit_pricing" /\ pc = "find"
    /\ events' = Append(events, "find")
    /\ IF find_element(RenderedDom) = 0
       THEN Unwind("selector") /\ price_element' = price_element
       ELSE /\ price_element' = find_element(RenderedDom)
            /\ pc' = "text" /\ fault' = fault
    /\ UNCHANGED <<lambda_env, event, context, dom, renderDelay, slept, options,
                   driver, session, quitCalls, price_text, response, varsB, tool>>

\* lines 60-62: price_text = price_element.text; print; return price_text
ElementText ==
    /\ tool = "multivit_pricing" /\ pc = "text"
    /\ events' = Append(events, "text")
    /\ \/ /\ price_text' = <<dom[price_element].text>>
          /\ pc' = "finally" /\ fault' = fault
       \/ Unwind("extraction") /\ price_text' = price_text
    /\ UNCHANGED <<lambda_env, event, context, dom, renderDelay, slept, options,
                   driver, session, quitCalls, price_element, response, varsB, tool>>

\* lines 64-66: finally: driver.quit(); then the pending return or fault goes on
\* variant: the finally block swallows the fault and an empty price is returned
FinallySwallow ==
    /\ tool = "multivit_pricing" /\ pc = "finally"
    /\ events' = Append(events, "quit")
    /\ quitCalls' = quitCalls + 1
    /\ session' = "released"
    /\ pc' = "wrap"
    /\ price_text' = IF fault = "none" THEN price_text ELSE <<"">>
    /\ UNCHANGED <<lambda_env, event, context, dom, renderDelay, slept, options,
                   driver, price_element, fault, response, varsB, tool>>
Finally ==
    /\ tool = "multivit_pricing" /\ pc = "finally"
    /\ events' = Append(events, "quit")
    /\ quitCalls' = quitCalls + 1
    /\ session' = "released"
    /\ pc' = IF fault = "none" THEN "wrap" ELSE "raised"
    /\ UNCHANGED <<lambda_env, event, context, dom, renderDelay, slept, options,
                   driver, price_element, price_text, fault, response, varsB, tool>>

\* lines 71-74: price = get_product_price(); return {"statusCode": 200, "body": ...}
LambdaReturn ==
    /\ tool = "multivit_pricing" /\ pc = "wrap"
    /\ response' = <<[statusCode |-> StatusOK, body |-> BodyPrefix \o price_text[1]]>>
    /\ pc' = "returned"
    /\ UNCHANGED <<lambda_env, event, context, dom, renderDelay, slept, options,
                   driver, session, quitCalls, price_element, price_text, fault,
                   events, varsB, tool>>

NextA ==
    \/ SetupDriver
    \/ DriverGet
    \/ Sleep
    \/ FindElement
    \/ ElementText
    \/ Finally
    \/ LambdaReturn

(***************************************************************************)
(* quantopian_get_pricing.py                                               *)
(***************************************************************************)
Omitted == "<omitted>"
NoName == "<None>"
Tickers == {"AAPL", "ZZZZINVALID"}
Dates == {"2023-01-03", "2023-01-10"}
Frequencies == {"1d", "1m", "1wk", Omitted}
ProviderErrors == {"HTTPError", "KeyError('ZZZZINVALID')"}

\* The column layouts yf.download hands back for one ticker: with prices
\* adjusted in place (auto_adjust on), and with the adjusted close in a column
\* of its own beside the raw close (auto_adjust off).
Layouts ==
    { <<"Open", "High", "Low", "Close", "Volume">>,
      <<"Open", "High", "Low", "Close", "Adj Close", "Volume">> }

\* The value of one cell of the provider's table: every column of a bar has
\* its own value, and bars with different seeds differ in every column.
Quote(label, seed) ==
    CASE label = "Low"       -> 10 * seed
      [] label = "Open"      -> 10 * seed + 1
      [] label = "Adj Close" -> 10 * seed + 2
      [] label = "Close"     -> 10 * seed + 3
      [] label = "High"      -> 10 * seed + 4
      [] label = "Volume"    -> 1000 * seed

\* A DataFrame: the names and the per-row values of its index levels, its
\* column labels and the per-row values of its columns.
ProviderFrame(layout, seeds) ==
    [idxNames |-> <<"Date">>,
     idx      |-> [i \in 1..Len(seeds) |-> <<i>>],
     cols     |-> layout,
     vals     |-> [i \in 1..Len(seeds) |->
                     [j \in 1..Len(layout) |-> Quote(layout[j], seeds[i])]]]
ProviderFrames ==
    { ProviderFrame(l, s) :
        l \in Layouts, s \in UNION {[1..n -> 1..MaxSeed] : n \in 0..MaxRows} }

\* DataFrame.empty: an axis of length 0.
\* variant: the emptiness test never fires
emptyNever(f) == FALSE
empty(f) == Len(f.idx) = 0 \/ Len(f.cols) = 0

\* The mapper of the rename (lines 56-62).
ColumnMap ==
    [c \in {"Open", "High", "Low", "Close", "Volume"} |->
        CASE c = "Open"   -> "open_price"
          [] c = "High"   -> "high"
          [] c = "Low"    -> "low"
          [] c = "Close"  -> "close_price"
          [] c = "Volume" -> "volume"]

\* DataFrame.rename(columns=mapper): a new frame; labels the mapper does not
\* name are kept as they are.
rename(f, mapper) ==
    [f EXCEPT !.cols = [j \in 1..Len(f.cols) |->
        IF f.cols[j] \in DOMAIN mapper THEN mapper[f.cols[j]] ELSE f.cols[j]]]

ColPos(f, label) == CHOOSE j \in 1..Len(f.cols) : f.cols[j] = label
\* f[label]
getitem(f, label) == [i \in 1..Len(f.vals) |-> f.vals[i][ColPos(f, label)]]
\* f[label] = column: replaces the column when the label exists, appends it otherwise
setitem(f, label, column) ==
    IF label \in Range(f.cols)
    THEN [f EXCEPT !.vals = [i \in 1..Len(f.vals) |->
            [f.vals[i] EXCEPT ![ColPos(f, label)] = column[i]]]]
    ELSE [f EXCEPT !.cols = Append(f.cols, label),
                   !.vals = [i \in 1..Len(f.vals) |-> Append(f.vals[i], column[i])]]
\* a scalar assigned to a column is broadcast to every row
Broadcast(f, v) == [i \in 1..Len(f.vals) |-> v]

\* DataFrame.reset_index(): the index levels become the leading columns, and
\* the index a RangeIndex.
reset_index(f) ==
    [idxNames |-> <<NoName>>,
     idx      |-> [i \in 1..Len(f.idx) |-> <<i - 1>>],
     cols     |-> f.idxNames \o f.cols,
     vals     |-> [i \in 1..Len(f.vals) |-> f.idx[i] \o f.vals[i]]]

\* DataFrame.set_index(keys, append=...): the key columns leave the columns and
\* become the index, after the existing levels when append is set.
set_index(f, keys, append) ==
    LET kept == SelectSeq(Positions(Len(f.cols)), LAMBDA j : f.cols[j] \notin Range(keys))
    IN  [idxNames |-> (IF append THEN f.idxNames ELSE <<>>) \o keys,
         idx      |-> [i \in 1..Len(f.idx) |->
                         (IF append THEN f.idx[i] ELSE <<>>)
                            \o [k \in 1..Len(keys) |-> f.vals[i][ColPos(f, keys[k])]]],
         cols     |-> [k \in 1..Len(kept) |-> f.cols[kept[k]]],
         vals     |-> [i \in 1..Len(f.vals) |->
                         [k \in 1..Len(kept) |-> f.vals[i][kept[k]]]]]

\* line 24: the value the frequency parameter is bound to
FrequencyParam(arg) == IF arg = Omitted THEN "1d" ELSE arg
\* lines 38-41
\* variant: frequencies other than 1d and 1m fall back to 1d
IntervalForKnown(freq) == IF freq \in {"1d", "1m"} THEN freq ELSE "1d"
IntervalFor(freq) == IF freq = "1m" THEN "1m" ELSE freq

\* the f-strings of lines 49 and 52, as the fragments they join
FetchErrorMessage(t, e) == <<"Error fetching data for ", t, ": ", e>>
NoDataMessage(t, s, e) == <<"No data found for ", t, " from ", s, " to ", e, ".">>

IdleA ==
    /\ lambda_env = FALSE /\ event = "None" /\ context = "None" /\ dom = <<>>
    /\ renderDelay = 0 /\ slept = 0 /\ options = NoProfile /\ driver = "unbound"
    /\ session = "absent" /\ quitCalls = 0 /\ price_element = 0
    /\ price_text = <<>> /\ fault = "none" /\ response = <<>> /\ events = <<>>

InitB ==
    /\ tool = "quantopian_get_pricing"
    /\ pc = "get_pricing"
    /\ ticker \in Tickers
    /\ start_date \in Dates
    /\ end_date \in Dates
    /\ frequency \in Frequencies
    /\ interval = ""
    /\ upstream0 \in ProviderFrames
    /\ heap = <<upstream0>>
    /\ upstream = 1
    /\ data = 0
    /\ formatted_data = 0
    /\ requests = <<>>
    /\ provider_exc = ""
    /\ error = <<>>
    /\ results = <<>>
    /\ calls = 1
    /\ IdleA

\* lines 38-41: the interval sent to the provider
BindInterval ==
    /\ tool = "quantopian_get_pricing" /\ pc = "get_pricing"
    /\ interval' = IntervalFor(FrequencyParam(frequency))
    /\ pc' = "download"
    /\ UNCHANGED <<ticker, start_date, end_date, frequency, upstream, upstream0, heap,
                   data, formatted_data, requests, provider_exc, error, results, calls,
                   varsA, tool>>

\* lines 44-49: data = yf.download(...), a ValueError when the provider raises
Download ==
    /\ tool = "quantopian_get_pricing" /\ pc = "download"
    /\ requests' = Append(requests, [ticker |-> ticker, start |-> start_date,
                                      end |-> end_date, interval |-> interval])
    /\ \/ /\ data' = upstream
          /\ pc' = "check"
          /\ UNCHANGED <<provider_exc, error>>
       \/ \E e \in ProviderErrors :
             /\ provider_exc' = e
             /\ error' = <<[kind |-> "ValueError", msg |-> FetchErrorMessage(ticker, e)]>>
             /\ pc' = "raised"
             /\ data' = data
    /\ UNCHANGED <<ticker, start_date, end_date, frequency, interval, upstream,
                   upstream0, heap, formatted_data, results, calls, varsA, tool>>

\* lines 51-52: if data.empty: raise ValueError(...)
CheckEmpty ==
    /\ tool = "quantopian_get_pricing" /\ pc = "check"
    /\ IF empty(heap[data])
       THEN /\ error' = <<[kind |-> "ValueError",
                           msg |-> NoDataMessage(ticker, start_date, end_date)]>>
            /\ pc' = "raised"
       ELSE error' = error /\ pc' = "rename"
    /\ UNCHANGED <<ticker, start_date, end_date, frequency, interval, upstream,
                   upstream0, heap, data, formatted_data, requests, provider_exc,
                   results, calls, varsA, tool>>

\* lines 55-63: data = data.rename(columns={...}): `data` is rebound to a new frame
\* variant: the rename is made in place, on the frame the provider returned
RenameInPlace ==
    /\ tool = "quantopian_get_pricing" /\ pc = "rename"
    /\ heap' = [heap EXCEPT ![data] = rename(@, ColumnMap)]
    /\ pc' = "price"
    /\ UNCHANGED <<ticker, start_date, end_date, frequency, interval, upstream,
                   upstream0, data, formatted_data, requests, provider_exc, error,
                   results, calls, varsA, tool>>
Rename ==
    /\ tool = "quantopian_get_pricing" /\ pc = "rename"
    /\ heap' = Append(heap, rename(heap[data], ColumnMap))
    /\ data' = Len(heap) + 1
    /\ pc' = "price"
    /\ UNCHANGED <<ticker, start_date, end_date, frequency, interval, upstream,
                   upstream0, formatted_data, requests, provider_exc, error, results,
                   calls, varsA, tool>>

\* line 66: data["price"] = data["close_price"]
\* variant: price copied from open_price
AddPriceFromOpen ==
    /\ tool = "quantopian_get_pricing" /\ pc = "price"
    /\ heap' = [heap EXCEPT ![data] = setitem(@, "price", getitem(@, "open_price"))]
    /\ pc' = "index_name"
    /\ UNCHANGED <<ticker, start_date, end_date, frequency, interval, upstream,
                   upstream0, data, formatted_data, requests, provider_exc, error,
                   results, calls, varsA, tool>>
AddPrice ==
    /\ tool = "quantopian_get_pricing" /\ pc = "price"
    /\ heap' = [heap EXCEPT ![data] = setitem(@, "price", getitem(@, "close_price"))]
    /\ pc' = "index_name"
    /\ UNCHANGED <<ticker, start_date, end_date, frequency, interval, upstream,
                   upstream0, data, formatted_data, requests, provider_exc, error,
                   results, calls, varsA, tool>>

\* line 69: data.index.name = "timestamp"
NameIndex ==
    /\ tool = "quantopian_get_pricing" /\ pc = "index_name"
    /\ heap' = [heap EXCEPT ![data].idxNames = <<"timestamp">>]
    /\ pc' = "reindex"
    /\ UNCHANGED <<ticker, start_date, end_date, frequency, interval, upstream,
                   upstream0, data, formatted_data, requests, provider_exc, error,
                   results, calls, varsA, tool>>

\* line 70: formatted_data = data.reset_index().set_index(["timestamp"])
Reindex ==
    /\ tool = "quantopian_get_pricing" /\ pc = "reindex"
    /\ heap' = Append(heap, set_index(reset_index(heap[data]), <<"timestamp">>, FALSE))
    /\ formatted_data' = Len(heap) + 1
    /\ pc' = "symbol"
    /\ UNCHANGED <<ticker, start_date, end_date, frequency, interval, upstream,
                   upstream0, data, requests, provider_exc, error, results, calls,
                   varsA, tool>>

\* line 73: formatted_data["symbol"] = ticker
AddSymbol ==
    /\ tool = "quantopian_get_pricing" /\ pc = "symbol"
    /\ heap' = [heap EXCEPT ![formatted_data] = setitem(@, "symbol", Broadcast(@, ticker))]
    /\ pc' = "symbol_index"
    /\ UNCHANGED <<ticker, start_date, end_date, frequency, interval, upstream,
                   upstream0, data, formatted_data, requests, provider_exc, error,
                   results, calls, varsA, tool>>

\* line 74: formatted_data.set_index("symbol", append=True, inplace=True)
\* variant: symbol replaces the index instead of being appended to it
SymbolIndexNoAppend ==
    /\ tool = "quantopian_get_pricing" /\ pc = "symbol_index"
    /\ heap' = [heap EXCEPT ![formatted_data] = set_index(@, <<"symbol">>, FALSE)]
    /\ pc' = "return"
    /\ UNCHANGED <<ticker, start_date, end_date, frequency, interval, upstream,
                   upstream0, data, formatted_data, requests, provider_exc, error,
                   results, calls, varsA, tool>>
SymbolIndex ==
    /\ tool = "quantopian_get_pricing" /\ pc = "symbol_index"
    /\ heap' = [heap EXCEPT ![formatted_data] = set_index(@, <<"symbol">>, TRUE)]
    /\ pc' = "return"
    /\ UNCHANGED <<ticker, start_date, end_date, frequency, interval, upstream,
                   upstream0, data, formatted_data, requests, provider_exc, error,
                   results, calls, varsA, tool>>

\* lines 75-76: return formatted_data
Return ==
    /\ tool = "quantopian_get_pricing" /\ pc = "return"
    /\ results' = Append(results, formatted_data)
    /\ pc' = "returned"
    /\ UNCHANGED <<ticker, start_date, end_date, frequency, interval, upstream,
                   upstream0, heap, data, formatted_data, requests, provider_exc,
                   error, calls, varsA, tool>>

\* line 24: the caller calls get_pricing again, with the same arguments; the
\* provider answers with the same response object.
CallAgain ==
    /\ tool = "quantopian_get_pricing" /\ pc \in {"returned", "raised"}
    /\ calls < MaxCalls
    /\ calls' = calls + 1
    /\ interval' = "" /\ data' = 0 /\ formatted_data' = 0
    /\ requests' = <<>> /\ provider_exc' = "" /\ error' = <<>>
    /\ pc' = "get_pricing"
    /\ UNCHANGED <<ticker, start_date, end_date, frequency, upstream, upstream0, heap,
                   results, varsA, tool>>

NextB ==
    \/ BindInterval
    \/ Download
    \/ CheckEmpty
    \/ Rename
    \/ AddPrice
    \/ NameIndex
    \/ Reindex
    \/ AddSymbol
    \/ SymbolIndex
    \/ Return
    \/ CallAgain

Init == InitA \/ InitB
Next == NextA \/ NextB
Spec == Init /\ [][Next]_vars

(***************************************************************************)
(* The claims                                                              *)
(***************************************************************************)
RunsA == tool = "multivit_pricing"
RunsB == tool = "quantopian_get_pricing"
IsPrefix(s, t) == Len(s) <= Len(t) /\ \A i \in 1..Len(s) : s[i] = t[i]
\* the table the last completed get_pricing call returned
Out == heap[results[Len(results)]]
Cell(f, i, label) == f.vals[i][CHOOSE j \in 1..Len(f.cols) : f.cols[j] = label]

\* C1: once get_product_price has exited with a driver that setup_driver
\* created, driver.quit() has been called exactly once and the session is
\* released, whether the exit is the return of the price text or a fault of
\* the navigation, the lookup or the text extraction; quit is never called
\* twice, and never without a driver.
C1_QuitOnceOnEveryExit ==
    RunsA =>
        /\ quitCalls <= 1
        /\ (quitCalls = 1 => driver = "bound")
        /\ (driver = "bound" /\ pc \in {"wrap", "returned", "raised"})
              => (quitCalls = 1 /\ session = "released")
C1_Witness ==
    RunsA /\ pc = "raised" /\ fault = "extraction" /\ quitCalls = 1 /\ session = "released"

\* C2 as stated: whenever a fault leaves lambda_handler (launch failure
\* included) no response was returned and no session is left open.
C2_ReleasedOnEveryFault ==
    (RunsA /\ pc = "raised") => (response = <<>> /\ session # "open")

\* C2 as amended: a fault never comes with a response and always leaves
\* lambda_handler; after a navigation, selector or extraction fault quit has
\* been called once and the session is released; after a launch failure no
\* driver was bound and quit was not called.
C2_FaultPropagation ==
    RunsA =>
        /\ (fault # "none" => (response = <<>> /\ pc \in {"finally", "raised"}))
        /\ (pc = "raised" => fault # "none")
        /\ (pc = "raised" /\ fault \in {"navigation", "selector", "extraction"})
              => (quitCalls = 1 /\ session = "released")
        /\ (pc = "raised" /\ fault = "launch")
              => (quitCalls = 0 /\ driver = "unbound" /\ events = <<"launch">>)
C2_Witness ==
    RunsA /\ pc = "raised" /\ fault = "launch" /\ quitCalls = 0 /\ session = "open"

\* C3: a response exists only once lambda_handler has returned without a
\* fault, after the page was loaded and searched; it is exactly statusCode 200
\* with the body "The current price is: " followed by the text of the first
\* element of the page that matches the selector, whatever event and context.
C3_ResponseEnvelope ==
    RunsA =>
        /\ (pc = "returned" => response # <<>>)
        /\ (response # <<>> =>
              /\ pc = "returned" /\ fault = "none" /\ Len(response) = 1
              /\ {"get", "find", "text"} \subseteq Range(events)
              /\ response[1].statusCode = 200
              /\ \E i \in 1..Len(dom) :
                    /\ dom[i].matches
                    /\ \A j \in 1..(i-1) : ~dom[j].matches
                    /\ response[1] = [statusCode |-> 200,
                                      body |-> "The current price is: " \o dom[i].text])
C3_Witness ==
    /\ RunsA /\ response # <<>> /\ Len(dom) = 2
    /\ dom[1].matches /\ dom[2].matches /\ dom[1].text # dom[2].text
    /\ event = "{}" /\ context = "LambdaContext"

\* C10: the browser calls of one invocation are a prefix of launch, get,
\* sleep, find, text, quit, with quit taking the place of the rest after a
\* fault; a lookup is made only after the whole fixed wait, the wait is taken
\* whenever the page load returned, and a finished invocation has made one of
\* the four complete sequences (so no step is ever repeated).
CallOrders ==
    { <<"launch">>,
      <<"launch", "get", "quit">>,
      <<"launch", "get", "sleep", "find", "quit">>,
      <<"launch", "get", "sleep", "find", "text", "quit">> }
C10_StepOrder ==
    RunsA =>
        /\ \E t \in CallOrders : IsPrefix(events, t)
        /\ ("find" \in Range(events) => slept = 10)
        /\ (pc \in {"find", "text"} => "sleep" \in Range(events))
        /\ ("get" \in Range(events) /\ pc # "sleep" /\ fault # "navigation")
              => "sleep" \in Range(events)
        /\ (pc \in {"returned", "raised"} => events \in CallOrders)
        /\ (fault = "selector" => events \in
              { <<"launch", "get", "sleep", "find">>,
                <<"launch", "get", "sleep", "find", "quit">> })
C10_Witness ==
    /\ RunsA /\ pc = "raised" /\ fault = "selector"
    /\ events = <<"launch", "get", "sleep", "find", "quit">>
    /\ \E i \in 1..Len(dom) : dom[i].matches

\* C4: a call sends exactly one request; when the provider raises, the call
\* raises a ValueError naming the ticker and the provider's error; when the
\* provider's series is empty, a ValueError naming the ticker and both dates;
\* in neither case is a table built or returned, and a table is returned only
\* for a non-empty series.
C4_ErrorOutcomes ==
    RunsB =>
        /\ Len(requests) <= 1
        /\ (pc \notin {"get_pricing", "download"} => Len(requests) = 1)
        /\ (provider_exc # "" => pc = "raised")
        /\ (Len(upstream0.idx) = 0 => pc \in {"get_pricing", "download", "check", "raised"})
        /\ (pc = "raised" =>
              /\ Len(error) = 1 /\ error[1].kind = "ValueError"
              /\ formatted_data = 0 /\ Len(results) < calls
              /\ IF provider_exc # ""
                 THEN {ticker, provider_exc} \subseteq Range(error[1].msg)
                 ELSE /\ Len(upstream0.idx) = 0
                      /\ {ticker, start_date, end_date} \subseteq Range(error[1].msg))
        /\ (pc = "returned" =>
              error = <<>> /\ provider_exc = "" /\ Len(upstream0.idx) > 0)
C4_Witness ==
    /\ RunsB /\ pc = "raised" /\ provider_exc = "" /\ Len(error) = 1
    /\ ticker = "ZZZZINVALID" /\ start_date = end_date

\* C5: the returned table has as many rows as the provider response, and in
\* each row price = close_price = the provider's Close of that row.
C5_PriceIsClose ==
    (RunsB /\ pc = "returned") =>
        /\ Len(Out.vals) = Len(upstream0.vals)
        /\ Len(Out.idx) = Len(upstream0.idx)
        /\ {"price", "close_price"} \subseteq Range(Out.cols)
        /\ \A i \in 1..Len(upstream0.vals) :
              /\ Cell(Out, i, "price") = Cell(Out, i, "close_price")
              /\ Cell(Out, i, "close_price") = Cell(upstream0, i, "Close")
C5_Witness ==
    /\ RunsB /\ pc = "returned" /\ Len(upstream0.vals) = 2
    /\ Cell(upstream0, 1, "Close") # Cell(upstream0, 2, "Close")

C7_OutputColumns ==
    (RunsB /\ pc = "returned") =>
        Out.cols = <<"open_price", "high", "low", "close_price", "volume", "price">>

\* C8: the provider response is never changed by get_pricing, and all calls
\* made on the same provider response with the same ticker return equal
\* tables, each a frame of its own.
C8_ShaperPure ==
    RunsB =>
        /\ heap[upstream] = upstream0
        /\ \A i \in 1..Len(results) : results[i] # upstream
        /\ \A i, j \in 1..Len(results) : heap[results[i]] = heap[results[j]]
C8_Witness ==
    RunsB /\ Len(results) = 2 /\ results[1] # results[2] /\ pc = "returned"

\* C9: every request carries the frequency argument unchanged as its interval
\* ("1d" when the argument is omitted), and a call fails only when the
\* provider raised or returned an empty series.
C9_FrequencyPassThrough ==
    RunsB =>
        /\ \A i \in 1..Len(requests) :
              requests[i].interval = (IF frequency = "<omitted>" THEN "1d" ELSE frequency)
        /\ (pc \in {"raised", "returned"} => Len(requests) = 1)
        /\ (error # <<>> => (provider_exc # "" \/ Len(upstream0.idx) = 0))
C9_Witness ==
    /\ RunsB /\ pc = "returned" /\ frequency = "1wk"
    /\ requests = <<[ticker |-> ticker, start |-> start_date, end |-> end_date,
                     interval |-> "1wk"]>>
====
